---- MODULE Spec2Model ----
(***************************************************************************)
(* A model of the rate-limited, signed API client of the jalshi           *)
(* repository: RateLimiter (src/api/rate_limiter.py), KalshiAuth          *)
(* (src/api/auth.py) and KalshiClient (src/api/client.py); of its         *)
(* configuration (src/core/config.py, src/core/safety.py); and of         *)
(* TradeExecutor (src/trading/executor.py).                               *)
(*                                                                         *)
(* Time is counted in ticks.  A millisecond is TicksPerMs ticks, so the    *)
(* float clock time.time() has a finer resolution than the millisecond    *)
(* timestamp int(time.time() * 1000) that the signer derives from it.      *)
(* requests_per_second is a float in the code; it is kept as the rational  *)
(* rpsNum / RpsDenom.                                                      *)
(***************************************************************************)
EXTENDS Integers, Sequences, FiniteSets, TLC

\* ------------------------------------------------------------------ bounds

TicksPerMs == 2
NumThreads == 3
MaxCalls == 3
MaxSeconds == 2
MaxSigns == 2
MaxRequests == 2
FirstSignMs == 8
MaxSignMs == 10
MaxReads == 2

\* The window of rate_limiter.py (the literal 1.0, in ticks).
Second == 1000 * TicksPerMs
MaxClock == MaxSeconds * Second
RpsDenom == 2
DefaultRps == 10
\* requests_per_second values, as numerators over RpsDenom: -1, 0, 0.5, 1, 1.5, 2.
RpsChoices == {-2, 0, 1, 2, 3, 4}
Threads == 1..NumThreads
NoThread == 0
\* The clock advances of the limiter's specification: half a second.
LimiterSteps == {Second \div 2}

\* The two credential pairs of the configuration: key id and private key.
ReadonlyCredentials == [key_id |-> "readonly-key-id", private_key |-> "readonly-key"]
WriteCredentials == [key_id |-> "write-key-id", private_key |-> "write-key"]
Credentials == {ReadonlyCredentials, WriteCredentials}

VARIABLES
    clock,        \* time.time(), in ticks
    rpsNum,       \* RateLimiter.config.requests_per_second * RpsDenom
    timestamps,   \* RateLimiter._timestamps, front first
    lock,         \* the thread holding RateLimiter._lock, or NoThread
    pc,           \* each thread's position
    acq,          \* each thread's locals inside acquire(): now, oldest, slept, wake
    admitLog,     \* history: every timestamp acquire() recorded, in order
    ncalls,       \* calls started so far
    auth,         \* KalshiAuth: key_id and _private_key
    authLog,      \* history: the get_auth_headers calls callers make directly
    environment,  \* KalshiClient.environment
    req,          \* each thread's KalshiClient._request, in progress or ended
    lastSend,     \* the latest call of the HTTP transport, as the transport saw it
    environ,      \* os.environ: the variables the configuration reads
    built,        \* the latest configuration call and what it returned or raised
    twin,         \* two RateLimiters that differ in burst_size only, by burst_size
    safety_configs,   \* the SafetyConfig objects: the global one and a custom one
    executor_safety,  \* TradeExecutor.safety: the SafetyConfig object it refers to
    lastExec,     \* the latest execute / execute_dry_run call and its result
    dryrun,       \* each thread's execute_dry_run or execute call on the executor
    lastBody,     \* the latest create_order call and the request body it built
    lastRate      \* the latest current_rate read and what it returned

vars == <<clock, rpsNum, timestamps, lock, pc, acq, admitLog, ncalls, auth, authLog,
          environment, req, lastSend, environ, built, twin,
          safety_configs, executor_safety, lastExec, dryrun, lastBody, lastRate>>

callVars == <<dryrun, lastBody, lastRate>>

twinVars == <<twin>>

executorVars == <<safety_configs, executor_safety, lastExec>>

setupVars == <<environ, built>>

signerVars == <<auth, authLog>>

clientVars == <<environment, req, lastSend>>

limiterVars == <<rpsNum, timestamps, lock, acq, admitLog>>

NoLocals == [now |-> 0, oldest |-> 0, retained |-> 0, slept |-> FALSE, wake |-> 0]

\* A thread's request record: the endpoint method called, the method and
\* path given to _request, and what the request has done so far: the
\* admissions acquire() recorded for it (and the latest one's timestamp), the
\* header computations (and the
\* admissions there were at the latest one), the transport calls, and the
\* response and result.
NoHeaders == [key |-> "", signature |-> "", timestamp |-> <<>>]
NoResult == [kind |-> "", status |-> 0]
NoReq ==
    [name |-> "", method |-> <<>>, path |-> <<>>, admits |-> 0, admittedAt |-> 0,
     signs |-> 0, admitsAtSign |-> 0, headers |-> NoHeaders, sends |-> 0,
     status |-> 0, result |-> NoResult]
InRequest(t) == req[t].name # ""
NoSend ==
    [name |-> "", method |-> <<>>, path |-> <<>>, url |-> <<>>, headers |-> NoHeaders,
     admits |-> 0, admittedAt |-> 0, admitsAtSign |-> 0, signs |-> 0, sends |-> 0,
     status |-> 0]

\* ------------------------------------------------------------ RateLimiter

\* The pruning loop with a window of two seconds.
RECURSIVE PruneOldLax(_, _)
PruneOldLax(ts, nw) ==
    IF ts # <<>> /\ Head(ts) < nw - 2 * Second
    THEN PruneOldLax(Tail(ts), nw)
    ELSE ts
\* while self._timestamps and self._timestamps[0] < now - 1.0: popleft()
RECURSIVE PruneOld(_, _)
PruneOld(ts, nw) ==
    IF ts # <<>> /\ Head(ts) < nw - Second
    THEN PruneOld(Tail(ts), nw)
    ELSE ts

\* len(self._timestamps) >= self.config.requests_per_second
AtLimitGt(n, r) == n * RpsDenom > r
AtLimit(n, r) == n * RpsDenom >= r

\* sleep_time = self._timestamps[0] + 1.0 - now
SleepTime(oldest, nw) == oldest + Second - nw

\* The timestamp acquire() appends: time.time() read again at the append.
RecordedStale(t) == acq[t].now
Recorded(t) == clock

\* sum(1 for ts in self._timestamps if ts > now - 1.0)
current_rate(ts, nw) == Cardinality({i \in 1..Len(ts) : ts[i] > nw - Second})

\* A caller starts acquire() and queues on the lock.
CallAcquire(t) ==
    /\ pc[t] \in {"idle", "returned", "IndexError"}
    /\ ncalls < MaxCalls
    /\ pc' = [pc EXCEPT ![t] = "lock"]
    /\ ncalls' = ncalls + 1
    /\ UNCHANGED <<callVars, setupVars, twinVars, executorVars, clientVars, signerVars, clock, limiterVars>>

\* Lines 72-77: with self._lock: now = time.time(), then the pruning loop.
EnterNoLock(t) ==
    /\ pc[t] = "lock"
    /\ lock' = t
    /\ timestamps' = PruneOld(timestamps, clock)
    /\ acq' = [acq EXCEPT ![t] = [NoLocals EXCEPT !.now = clock,
                                                  !.retained = Len(timestamps')]]
    /\ pc' = [pc EXCEPT ![t] = "check"]
    /\ UNCHANGED <<callVars, setupVars, twinVars, executorVars, clientVars, signerVars, clock, rpsNum, admitLog, ncalls>>
Enter(t) ==
    /\ pc[t] = "lock"
    /\ lock = NoThread
    /\ lock' = t
    /\ timestamps' = PruneOld(timestamps, clock)
    /\ acq' = [acq EXCEPT ![t] = [NoLocals EXCEPT !.now = clock,
                                                  !.retained = Len(timestamps')]]
    /\ pc' = [pc EXCEPT ![t] = "check"]
    /\ UNCHANGED <<callVars, setupVars, twinVars, executorVars, clientVars, signerVars, clock, rpsNum, admitLog, ncalls>>

\* Line 80 false: below the limit, go on to record.
CheckUnder(t) ==
    /\ pc[t] = "check"
    /\ ~AtLimit(Len(timestamps), rpsNum)
    /\ pc' = [pc EXCEPT ![t] = "record"]
    /\ UNCHANGED <<callVars, setupVars, twinVars, executorVars, clientVars, signerVars, clock, limiterVars, ncalls>>

\* Line 80 true on an empty deque: self._timestamps[0] raises IndexError, which
\* leaves the with block (releasing the lock) and acquire().
CheckRaise(t) ==
    /\ pc[t] = "check"
    /\ AtLimit(Len(timestamps), rpsNum)
    /\ timestamps = <<>>
    /\ lock' = NoThread
    /\ acq' = [acq EXCEPT ![t] = NoLocals]
    /\ pc' = [pc EXCEPT ![t] = "IndexError"]
    /\ UNCHANGED <<callVars, setupVars, twinVars, executorVars, clientVars, signerVars, clock, rpsNum, timestamps, admitLog, ncalls>>

\* Lines 80-83: at the limit with sleep_time > 0, time.sleep(sleep_time).
CheckSleep(t) ==
    /\ pc[t] = "check"
    /\ AtLimit(Len(timestamps), rpsNum)
    /\ timestamps # <<>>
    /\ SleepTime(Head(timestamps), acq[t].now) > 0
    /\ acq' = [acq EXCEPT ![t].oldest = Head(timestamps),
                          ![t].slept = TRUE,
                          ![t].wake = clock + SleepTime(Head(timestamps), acq[t].now)]
    /\ pc' = [pc EXCEPT ![t] = "sleep"]
    /\ UNCHANGED <<callVars, setupVars, twinVars, executorVars, clientVars, signerVars, clock, rpsNum, timestamps, lock, admitLog, ncalls>>

\* Lines 80-86: at the limit with sleep_time <= 0, no sleep; the oldest
\* timestamp is removed.
CheckNoSleep(t) ==
    /\ pc[t] = "check"
    /\ AtLimit(Len(timestamps), rpsNum)
    /\ timestamps # <<>>
    /\ SleepTime(Head(timestamps), acq[t].now) <= 0
    /\ acq' = [acq EXCEPT ![t].oldest = Head(timestamps)]
    /\ timestamps' = Tail(timestamps)
    /\ pc' = [pc EXCEPT ![t] = "record"]
    /\ UNCHANGED <<callVars, setupVars, twinVars, executorVars, clientVars, signerVars, clock, rpsNum, lock, admitLog, ncalls>>

\* Lines 83-86: time.sleep returns once at least sleep_time has passed, then
\* if self._timestamps: popleft()
Wake(t) ==
    /\ pc[t] = "sleep"
    /\ clock >= acq[t].wake
    /\ timestamps' = IF timestamps # <<>> THEN Tail(timestamps) ELSE timestamps
    /\ pc' = [pc EXCEPT ![t] = "record"]
    /\ UNCHANGED <<callVars, setupVars, twinVars, executorVars, clientVars, signerVars, clock, rpsNum, lock, acq, admitLog, ncalls>>

\* Line 89 with appendleft in place of append.
RecordFront(t) ==
    /\ pc[t] = "record"
    /\ timestamps' = <<Recorded(t)>> \o timestamps
    /\ admitLog' = Append(admitLog,
                          [ts |-> Recorded(t), now |-> acq[t].now,
                           retained |-> acq[t].retained, oldest |-> acq[t].oldest,
                           slept |-> acq[t].slept])
    /\ lock' = NoThread
    /\ acq' = [acq EXCEPT ![t] = NoLocals]
    /\ pc' = [pc EXCEPT ![t] = IF InRequest(t) THEN "sign" ELSE "returned"]
    /\ req' = [req EXCEPT ![t].admits = IF InRequest(t) THEN @ + 1 ELSE @,
                          ![t].admittedAt = IF InRequest(t) THEN Recorded(t) ELSE @]
    /\ UNCHANGED <<callVars, setupVars, twinVars, executorVars, signerVars, environment, lastSend, clock, rpsNum, ncalls>>
\* Line 89 and the end of the with block: append time.time(), release the lock.
Record(t) ==
    /\ pc[t] = "record"
    /\ timestamps' = Append(timestamps, Recorded(t))
    /\ admitLog' = Append(admitLog,
                          [ts |-> Recorded(t), now |-> acq[t].now,
                           retained |-> acq[t].retained, oldest |-> acq[t].oldest,
                           slept |-> acq[t].slept])
    /\ lock' = NoThread
    /\ acq' = [acq EXCEPT ![t] = NoLocals]
    /\ pc' = [pc EXCEPT ![t] = IF InRequest(t) THEN "sign" ELSE "returned"]
    /\ req' = [req EXCEPT ![t].admits = IF InRequest(t) THEN @ + 1 ELSE @,
                          ![t].admittedAt = IF InRequest(t) THEN Recorded(t) ELSE @]
    /\ UNCHANGED <<callVars, setupVars, twinVars, executorVars, signerVars, environment, lastSend, clock, rpsNum, ncalls>>

\* Time passes.
Tick(d, horizon) ==
    /\ clock + d <= horizon
    /\ clock' = clock + d
    /\ UNCHANGED <<callVars, setupVars, twinVars, executorVars, clientVars, signerVars, limiterVars, pc, ncalls>>

Acquire(t) ==
    \/ Enter(t)
    \/ CheckUnder(t)
    \/ CheckRaise(t)
    \/ CheckSleep(t)
    \/ CheckNoSleep(t)
    \/ Wake(t)
    \/ Record(t)

\* RateLimiterConfig.burst_size, and the two values the twin limiters take.
DefaultBurstSize == 20
BurstSizes == {1, DefaultBurstSize}

\* A RateLimiter after construction, and the calls made on it so far: what
\* each acquire() slept and recorded, or that it raised.
NewLimiter(rate, burst) ==
    [requests_per_second |-> rate, burst_size |-> burst, timestamps |-> <<>>,
     calls |-> <<>>]
Twins(rate) == [burst \in BurstSizes |-> NewLimiter(rate, burst)]

\* SafetyConfig defaults, and the least confidence execute() trades on, in
\* percent.
DefaultMaxOrderValueCents == 1000
DefaultMaxDailyLossCents == 5000
MinConfidencePct == 55
DefaultPriceCents == 50

\* SafetyConfig()
DefaultSafetyConfig ==
    [dry_run |-> TRUE, require_confirmation |-> TRUE,
     max_order_value_cents |-> DefaultMaxOrderValueCents,
     max_daily_loss_cents |-> DefaultMaxDailyLossCents,
     daily_pnl_cents |-> 0]

\* The SafetyConfig objects of the process: the one get_safety_config()
\* returns, and one a caller constructs and passes to TradeExecutor.
ConfigRefs == {"global", "custom"}

\* An execute() call and its ExecutionResult: the arguments, the checks
\* evaluated in order, the check that failed, what confirm_trade returned,
\* the client.create_order calls made and what the call did, executed and
\* order_id ("None" for None).  price_cents
\* is <<>> for None and <<p>> for the int p.  A direct confirm_trade() call
\* is kept in the same record, with what the user typed and whether the
\* prompt was shown.
NoExec == [op |-> "none", signal |-> "hold", confidence |-> 0, contracts |-> 0,
           price_cents |-> <<>>, checks |-> <<>>, failed |-> "none",
           confirmed |-> "not called", create_orders |-> 0, executed |-> FALSE,
           order_id |-> "None", response |-> <<>>, prompted |-> FALSE,
           create_order |-> "not called"]

ExecutorIdle ==
    /\ safety_configs = [ref \in ConfigRefs |-> DefaultSafetyConfig]
    /\ executor_safety = "global"
    /\ lastExec = NoExec

\* A thread's call on the executor: the method, the position in it,
\* self.safety.dry_run when the call was made and when it returned, the
\* local original_dry_run, and the client.create_order calls it made.
NoDryRun == [op |-> "none", pc |-> "idle", entry_dry_run |-> FALSE,
             original_dry_run |-> FALSE, exit_dry_run |-> FALSE, create_orders |-> 0]

\* A create_order call: its optional arguments and the body it built, each
\* as <<>> for None / absent and <<v>> for the value v.
NoOrderBody == [ticker |-> <<>>, side |-> <<>>, action |-> <<>>, count |-> <<>>,
                type |-> <<>>, yes_price |-> <<>>, no_price |-> <<>>,
                client_order_id |-> <<>>]
NoBody == [called |-> FALSE, yes_price |-> <<>>, no_price |-> <<>>,
           client_order_id |-> <<>>, body |-> NoOrderBody]

\* A current_rate read: the reader, the clock it read, what it returned and
\* the reads so far.
NoRate == [reader |-> NoThread, now |-> 0, value |-> 0, reads |-> 0]

CallsIdle ==
    /\ dryrun = [t \in Threads |-> NoDryRun]
    /\ lastBody = NoBody
    /\ lastRate = NoRate

\* os.environ, for the variables the configuration reads.  A variable is set
\* or not; KALSHI_ENV holds a string as a sequence of characters (the code
\* lower-cases it), the other variables hold strings the code only compares.
EnvNames == {"KALSHI_ENV", "KALSHI_PRODUCTION_CONFIRMED",
             "KALSHI_READONLY_KEY_ID", "KALSHI_READONLY_KEY",
             "KALSHI_WRITE_KEY_ID", "KALSHI_WRITE_KEY"}
UnsetOf(name) == [set |-> FALSE, value |-> IF name = "KALSHI_ENV" THEN <<>> ELSE ""]
NoEnviron == [name \in EnvNames |-> UnsetOf(name)]

\* What a configuration call returned or raised: the environment, the base
\* URL and the credentials it selected, where it selects any.
NoCredentials == [key_id |-> "", private_key |-> ""]
NoOutcome == [raised |-> "none", environment |-> "None", base_url |-> <<>>,
              credentials |-> NoCredentials]
NoBuilt == [call |-> "none", readonly |-> FALSE, argument |-> "None",
            outcome |-> NoOutcome]

\* The limiter, signer and client after construction, at clock reading clk,
\* with requests_per_second drawn from rates.
ApiInitAt(clk, rates, envs, creds) ==
    /\ clock = clk
    /\ rpsNum \in rates
    /\ timestamps = <<>>
    /\ lock = NoThread
    /\ pc = [t \in Threads |-> "idle"]
    /\ acq = [t \in Threads |-> NoLocals]
    /\ admitLog = <<>>
    /\ ncalls = 0
    /\ auth \in creds
    /\ authLog = <<>>
    /\ environment \in envs
    /\ req = [t \in Threads |-> NoReq]
    /\ lastSend = NoSend

\* The state after construction, in a process that has made no configuration
\* call.
InitAt(clk, rates, envs, creds) ==
    /\ ApiInitAt(clk, rates, envs, creds)
    /\ environ = NoEnviron
    /\ built = NoBuilt
    /\ CallsIdle
    /\ twin = Twins(DefaultRps * RpsDenom)
    /\ ExecutorIdle

Init == InitAt(0, RpsChoices, {"development"}, {ReadonlyCredentials})

Next ==
    \/ \E t \in Threads : CallAcquire(t)
    \/ \E t \in Threads : Acquire(t)
    \/ \E d \in LimiterSteps : Tick(d, MaxClock)

Spec == Init /\ [][Next]_vars

\* ------------------------------------------- RateLimiter.current_rate

\* A caller reads the current_rate property and queues on the lock.
CallCurrentRate(t) ==
    /\ pc[t] \in {"idle", "returned", "IndexError"}
    /\ lastRate.reads + Cardinality({u \in Threads : pc[u] = "rate"}) < MaxReads
    /\ pc' = [pc EXCEPT ![t] = "rate"]
    /\ UNCHANGED <<callVars, setupVars, twinVars, executorVars, clientVars, signerVars, clock, limiterVars, ncalls>>

\* Lines 103-106: with self._lock: now = time.time(), the count of the
\* timestamps newer than now - 1.0 is returned and the lock released.
ReadCurrentRateNoLock(t) ==
    /\ pc[t] = "rate"
    /\ lastRate' = [reader |-> t, now |-> clock,
                    value |-> current_rate(timestamps, clock),
                    reads |-> lastRate.reads + 1]
    /\ pc' = [pc EXCEPT ![t] = "returned"]
    /\ UNCHANGED <<dryrun, lastBody, setupVars, twinVars, executorVars, clientVars, signerVars, clock, limiterVars, ncalls>>
ReadCurrentRate(t) ==
    /\ pc[t] = "rate"
    /\ lock = NoThread
    /\ lastRate' = [reader |-> t, now |-> clock,
                    value |-> current_rate(timestamps, clock),
                    reads |-> lastRate.reads + 1]
    /\ pc' = [pc EXCEPT ![t] = "returned"]
    /\ UNCHANGED <<dryrun, lastBody, setupVars, twinVars, executorVars, clientVars, signerVars, clock, limiterVars, ncalls>>

\* A limiter of 0 or 1 request per second, shared by two threads that call
\* acquire() and read current_rate; the clock is followed for one window.
RateInit == InitAt(0, {0, RpsDenom}, {"development"}, {ReadonlyCredentials})

RateThreads == {1, 2}
RateHorizon == Second

RateNext ==
    \/ \E t \in RateThreads : CallAcquire(t)
    \/ \E t \in RateThreads : Acquire(t)
    \/ \E t \in RateThreads : CallCurrentRate(t)
    \/ \E t \in RateThreads : ReadCurrentRate(t)
    \/ \E d \in LimiterSteps : Tick(d, RateHorizon)

RateSpec == RateInit /\ [][RateNext]_vars

\* -------------------------------------------------------------- KalshiAuth

\* Strings are sequences of one-character strings.
Digits == <<"0", "1", "2", "3", "4", "5", "6", "7", "8", "9">>
LowerLetters == <<"a", "b", "c", "d", "e", "f", "g", "h", "i", "j", "k", "l", "m", "n", "o", "p", "q", "r", "s", "t", "u", "v", "w", "x", "y", "z">>
UpperLetters == <<"A", "B", "C", "D", "E", "F", "G", "H", "I", "J", "K", "L", "M", "N", "O", "P", "Q", "R", "S", "T", "U", "V", "W", "X", "Y", "Z">>

\* str.upper(), character by character.
UpperChar(c) ==
    IF \E i \in 1..Len(LowerLetters) : LowerLetters[i] = c
    THEN UpperLetters[CHOOSE i \in 1..Len(LowerLetters) : LowerLetters[i] = c]
    ELSE c
Upper(str) == [i \in 1..Len(str) |-> UpperChar(str[i])]

\* str(n) for an int n >= 0.
RECURSIVE DecStr(_)
DecStr(n) ==
    IF n < 10 THEN <<Digits[n + 1]>>
    ELSE DecStr(n \div 10) \o <<Digits[(n % 10) + 1]>>

\* int(time.time() * 1000)
MillisAsSeconds(clk) == clk \div Second
Millis(clk) == clk \div TicksPerMs

\* _sign_message: RSA PKCS1v15 over SHA-256, base64-encoded.  The scheme is
\* deterministic; a signature is kept as the pair it is a function of.
sign_message(key, message) == [signed_by |-> key, over |-> message]

\* Verification with the public key of `key`: a signature verifies for the
\* message it was made over and for no other.
Verifies(key, message, signature) == signature = sign_message(key, message)

\* get_auth_headers(method, path) on the signer `a` at clock reading clk.
get_auth_headers_raw_method(a, clk, method, path) ==
    LET timestamp == DecStr(Millis(clk))
        message == timestamp \o method \o path
    IN  [key |-> a.key_id,
         signature |-> sign_message(a.private_key, message),
         timestamp |-> timestamp]
get_auth_headers_no_path(a, clk, method, path) ==
    LET timestamp == DecStr(Millis(clk))
        message == timestamp \o Upper(method)
    IN  [key |-> a.key_id,
         signature |-> sign_message(a.private_key, message),
         timestamp |-> timestamp]
get_auth_headers(a, clk, method, path) ==
    LET timestamp == DecStr(Millis(clk))
        message == timestamp \o Upper(method) \o path
    IN  [key |-> a.key_id,
         signature |-> sign_message(a.private_key, message),
         timestamp |-> timestamp]

\* A caller's get_auth_headers(method, path): the call is logged with the
\* clock reading it was made at.
SignCallCounting(method, path) ==
    /\ Len(authLog) < MaxSigns
    /\ authLog' = Append(authLog,
                         [method |-> method, path |-> path, clock |-> clock,
                          headers |-> get_auth_headers(auth, clock + Len(authLog) * TicksPerMs,
                                                       method, path)])
    /\ UNCHANGED <<callVars, setupVars, twinVars, executorVars, clientVars, clock, limiterVars, pc, ncalls, auth>>
SignCall(method, path) ==
    /\ Len(authLog) < MaxSigns
    /\ authLog' = Append(authLog,
                         [method |-> method, path |-> path, clock |-> clock,
                          headers |-> get_auth_headers(auth, clock, method, path)])
    /\ UNCHANGED <<callVars, setupVars, twinVars, executorVars, clientVars, clock, limiterVars, pc, ncalls, auth>>

\* Methods and paths callers sign with: verbs as the client writes them, a
\* lower-case spelling, and altered bytes.
SignMethods == { <<"G", "E", "T">>, <<"G", "E", "t">>, <<"G", "E", "X">>, <<"P", "O", "S", "T">> }
SignPaths == { <<"/", "A">>, <<"/", "B">> }
\* Clock advances of the signer's specification: less than a millisecond, a
\* millisecond.
SignerSteps == {1, TicksPerMs}
SignerHorizon == MaxSignMs * TicksPerMs

\* The signer is used from clock reading FirstSignMs on, beside a limiter
\* with the default requests_per_second.
SignerInit ==
    InitAt(FirstSignMs * TicksPerMs, {DefaultRps * RpsDenom}, {"development"}, Credentials)

SignerNext ==
    \/ \E m \in SignMethods, p \in SignPaths : SignCall(m, p)
    \/ \E d \in SignerSteps : Tick(d, SignerHorizon)

SignerSpec == SignerInit /\ [][SignerNext]_vars

\* ------------------------------------------------------------ KalshiClient

Environments == {"development", "demo", "production"}
ClientEnvironments == {"development", "demo", "production"}

\* get_api_base_url(environment)
get_api_base_url_no_prefix(env) ==
    IF env = "production"
    THEN <<"h", "t", "t", "p", "s", ":", "/", "/", "a", "p", "i", ".", "e", "l", "e", "c", "t", "i", "o", "n", "s", ".", "k", "a", "l", "s", "h", "i", ".", "c", "o", "m">>
    ELSE <<"h", "t", "t", "p", "s", ":", "/", "/", "d", "e", "m", "o", "-", "a", "p", "i", ".", "k", "a", "l", "s", "h", "i", ".", "c", "o">>
get_api_base_url(env) ==
    IF env = "production"
    THEN <<"h", "t", "t", "p", "s", ":", "/", "/", "a", "p", "i", ".", "e", "l", "e", "c", "t", "i", "o", "n", "s", ".", "k", "a", "l", "s", "h", "i", ".", "c", "o", "m", "/", "t", "r", "a", "d", "e", "-", "a", "p", "i", "/", "v", "2">>
    ELSE <<"h", "t", "t", "p", "s", ":", "/", "/", "d", "e", "m", "o", "-", "a", "p", "i", ".", "k", "a", "l", "s", "h", "i", ".", "c", "o", "/", "t", "r", "a", "d", "e", "-", "a", "p", "i", "/", "v", "2">>

\* The URL the transport requests for a relative url: httpx keeps base_url
\* with a trailing slash and appends the url stripped of its leading slashes.
EnforceTrailingSlash(u) == IF u[Len(u)] = "/" THEN u ELSE u \o <<"/">>
RECURSIVE LStripSlash(_)
LStripSlash(p) == IF p # <<>> /\ Head(p) = "/" THEN LStripSlash(Tail(p)) ELSE p
MergeUrl(base, url) == EnforceTrailingSlash(base) \o LStripSlash(url)

\* The path component of an absolute URL: from the first slash after the
\* scheme's "://" on.
UrlPath(u) ==
    LET scheme == CHOOSE i \in 1..Len(u) :
                      /\ u[i] = ":"
                      /\ \A k \in 1..(i - 1) : u[k] # ":"
        start == CHOOSE j \in (scheme + 3)..Len(u) :
                      /\ u[j] = "/"
                      /\ \A k \in (scheme + 3)..(j - 1) : u[k] # "/"
    IN  SubSeq(u, start, Len(u))

\* full_path = f"/trade-api/v2{path}"
FullPath(path) == <<"/", "t", "r", "a", "d", "e", "-", "a", "p", "i", "/", "v", "2">> \o path

\* The calls of the public endpoint methods: each gives _request a method and
\* a path.  One ticker and one order id stand for the arguments.
Ticker == <<"B", "T", "C">>
OrderId == <<"o", "1">>
GET == <<"G", "E", "T">>
POST == <<"P", "O", "S", "T">>
DELETE == <<"D", "E", "L", "E", "T", "E">>
EndpointCalls ==
    { [name |-> "get_markets", method |-> GET, path |-> <<"/", "m", "a", "r", "k", "e", "t", "s">>],
      [name |-> "get_market", method |-> GET, path |-> <<"/", "m", "a", "r", "k", "e", "t", "s", "/">> \o Ticker],
      [name |-> "get_orderbook", method |-> GET,
       path |-> <<"/", "m", "a", "r", "k", "e", "t", "s", "/">> \o Ticker \o <<"/", "o", "r", "d", "e", "r", "b", "o", "o", "k">>],
      [name |-> "get_balance", method |-> GET, path |-> <<"/", "p", "o", "r", "t", "f", "o", "l", "i", "o", "/", "b", "a", "l", "a", "n", "c", "e">>],
      [name |-> "get_positions", method |-> GET, path |-> <<"/", "p", "o", "r", "t", "f", "o", "l", "i", "o", "/", "p", "o", "s", "i", "t", "i", "o", "n", "s">>],
      [name |-> "create_order", method |-> POST, path |-> <<"/", "p", "o", "r", "t", "f", "o", "l", "i", "o", "/", "o", "r", "d", "e", "r", "s">>],
      [name |-> "cancel_order", method |-> DELETE, path |-> <<"/", "p", "o", "r", "t", "f", "o", "l", "i", "o", "/", "o", "r", "d", "e", "r", "s", "/">> \o OrderId] }

\* The statuses the transport answers with.
Statuses == {200, 429}
\* httpx.Response.is_success
IsSuccess(status) == status >= 200 /\ status <= 299

\* A thread calls an endpoint method, which calls _request: line 105,
\* self.rate_limiter.acquire().
CallEndpointNoLimit(t, ep) ==
    /\ pc[t] \in {"idle", "returned", "IndexError", "HTTPStatusError", "TransportError"}
    /\ ncalls < MaxRequests
    /\ ncalls' = ncalls + 1
    /\ req' = [req EXCEPT ![t] = [NoReq EXCEPT !.name = ep.name,
                                                !.method = ep.method,
                                                !.path = ep.path]]
    /\ pc' = [pc EXCEPT ![t] = "sign"]
    /\ UNCHANGED <<callVars, setupVars, twinVars, executorVars, clock, limiterVars, signerVars, environment, lastSend>>
CallEndpoint(t, ep) ==
    /\ pc[t] \in {"idle", "returned", "IndexError", "HTTPStatusError", "TransportError"}
    /\ ncalls < MaxRequests
    /\ ncalls' = ncalls + 1
    /\ req' = [req EXCEPT ![t] = [NoReq EXCEPT !.name = ep.name,
                                                !.method = ep.method,
                                                !.path = ep.path]]
    /\ pc' = [pc EXCEPT ![t] = "lock"]
    /\ UNCHANGED <<callVars, setupVars, twinVars, executorVars, clock, limiterVars, signerVars, environment, lastSend>>

\* Lines 108-109: headers = self.auth.get_auth_headers(method, full_path)
SignRequest(t) ==
    /\ pc[t] = "sign"
    /\ req' = [req EXCEPT
                 ![t].headers = get_auth_headers(auth, clock, req[t].method,
                                                 FullPath(req[t].path)),
                 ![t].signs = @ + 1,
                 ![t].admitsAtSign = req[t].admits]
    /\ pc' = [pc EXCEPT ![t] = "send"]
    /\ UNCHANGED <<callVars, setupVars, twinVars, executorVars, clock, limiterVars, signerVars, environment, lastSend, ncalls>>

\* Lines 111-117: self._client.request(method, url=path, headers=headers), as
\* the transport sees it when it answers with status.
Transport(t, status) ==
    [name |-> req[t].name,
     method |-> req[t].method,
     path |-> req[t].path,
     url |-> MergeUrl(get_api_base_url(environment), req[t].path),
     headers |-> req[t].headers,
     admits |-> req[t].admits,
     admittedAt |-> req[t].admittedAt,
     admitsAtSign |-> req[t].admitsAtSign,
     signs |-> req[t].signs,
     sends |-> req[t].sends + 1,
     status |-> status]

\* A request that ends after one more transport call, answered with status:
\* the arguments and headers are locals of _request and end with it; the
\* counts and the result stay for the caller.
Ended(r, kind, status) ==
    [NoReq EXCEPT !.admits = r.admits, !.signs = r.signs,
                  !.admitsAtSign = r.admitsAtSign, !.sends = r.sends + 1,
                  !.status = status, !.result = [kind |-> kind, status |-> status]]

\* Lines 111-119 with a 2xx response: raise_for_status() passes and
\* response.json() is returned.
SendOk(t, status) ==
    /\ pc[t] = "send"
    /\ IsSuccess(status)
    /\ lastSend' = Transport(t, status)
    /\ req' = [req EXCEPT ![t] = Ended(req[t], "json", status)]
    /\ pc' = [pc EXCEPT ![t] = "returned"]
    /\ UNCHANGED <<callVars, setupVars, twinVars, executorVars, clock, limiterVars, signerVars, environment, ncalls>>

\* Lines 111-118 with any other response: raise_for_status() raises
\* HTTPStatusError, which carries the response.
SendFailRetry(t, status) ==
    /\ pc[t] = "send"
    /\ ~IsSuccess(status)
    /\ lastSend' = Transport(t, status)
    /\ req' = [req EXCEPT ![t].sends = @ + 1, ![t].status = status,
                          ![t].result = [kind |-> "HTTPStatusError", status |-> status]]
    /\ pc' = [pc EXCEPT ![t] = IF req[t].sends = 0 THEN "send" ELSE "HTTPStatusError"]
    /\ UNCHANGED <<callVars, setupVars, twinVars, executorVars, clock, limiterVars, signerVars, environment, ncalls>>
SendFail(t, status) ==
    /\ pc[t] = "send"
    /\ ~IsSuccess(status)
    /\ lastSend' = Transport(t, status)
    /\ req' = [req EXCEPT ![t] = Ended(req[t], "HTTPStatusError", status)]
    /\ pc' = [pc EXCEPT ![t] = "HTTPStatusError"]
    /\ UNCHANGED <<callVars, setupVars, twinVars, executorVars, clock, limiterVars, signerVars, environment, ncalls>>


\* The timestamps without the first entry equal to ts.
RECURSIVE WithoutFirst(_, _)
WithoutFirst(tss, ts) ==
    IF tss = <<>> THEN tss
    ELSE IF Head(tss) = ts THEN Tail(tss)
    ELSE <<Head(tss)>> \o WithoutFirst(Tail(tss), ts)

\* Lines 111-117 when the transport raises (a connection error, a timeout):
\* the exception leaves _request; there is no response.
SendRaiseGiveBack(t) ==
    /\ pc[t] = "send"
    /\ lastSend' = Transport(t, 0)
    /\ req' = [req EXCEPT ![t] = Ended(req[t], "TransportError", 0)]
    /\ pc' = [pc EXCEPT ![t] = "TransportError"]
    /\ timestamps' = WithoutFirst(timestamps, req[t].admittedAt)
    /\ UNCHANGED <<callVars, setupVars, twinVars, executorVars, clock, rpsNum, lock, acq, admitLog, signerVars, environment, ncalls>>
SendRaise(t) ==
    /\ pc[t] = "send"
    /\ lastSend' = Transport(t, 0)
    /\ req' = [req EXCEPT ![t] = Ended(req[t], "TransportError", 0)]
    /\ pc' = [pc EXCEPT ![t] = "TransportError"]
    /\ UNCHANGED <<callVars, setupVars, twinVars, executorVars, clock, limiterVars, signerVars, environment, ncalls>>

Request(t) ==
    \/ \E ep \in EndpointCalls : CallEndpoint(t, ep)
    \/ Acquire(t)
    \/ SignRequest(t)
    \/ \E status \in Statuses : SendOk(t, status)
    \/ \E status \in Statuses : SendFail(t, status)
    \/ SendRaise(t)

\* A client with the write credentials, against the demo or the production
\* endpoint, over a limiter of 0 or 1 request per second.
ClientInit == InitAt(0, {0, RpsDenom}, ClientEnvironments, {WriteCredentials})

\* Two threads share the client; the clock is followed for one window.
ClientThreads == {1, 2}
ClientHorizon == Second

ClientNext ==
    \/ \E t \in ClientThreads : Request(t)
    \/ \E d \in LimiterSteps : Tick(d, ClientHorizon)

ClientSpec == ClientInit /\ [][ClientNext]_vars

\* -------------------------------------------- KalshiClient.create_order

\* Lines 244-257: the body create_order builds.  The optional arguments are
\* <<>> for None and <<v>> for the value v; `if client_order_id:` is the
\* truth value of the argument, false for None and for the empty string.
create_order_body(ticker, side, action, count, type, yes_price, no_price, client_order_id) ==
    LET body == [NoOrderBody EXCEPT !.ticker = <<ticker>>, !.side = <<side>>,
                                    !.action = <<action>>, !.count = <<count>>,
                                    !.type = <<type>>]
        with_yes == IF yes_price # <<>> THEN [body EXCEPT !.yes_price = yes_price]
                    ELSE body
        with_no == IF no_price # <<>> THEN [with_yes EXCEPT !.no_price = no_price]
                   ELSE with_yes
    IN  IF client_order_id # <<>> /\ client_order_id[1] # ""
        THEN [with_no EXCEPT !.client_order_id = client_order_id]
        ELSE with_no

CreateOrderEndpoint ==
    CHOOSE ep \in EndpointCalls : ep.name = "create_order"

\* A thread calls create_order: the body is built and handed to
\* _request("POST", "/portfolio/orders", json=body), which goes on to
\* self.rate_limiter.acquire().
CallCreateOrder(t, side, count, yes_price, no_price, client_order_id) ==
    /\ pc[t] \in {"idle", "returned", "IndexError", "HTTPStatusError", "TransportError"}
    /\ ncalls < MaxRequests
    /\ ncalls' = ncalls + 1
    /\ lastBody' = [called |-> TRUE, yes_price |-> yes_price, no_price |-> no_price,
                    client_order_id |-> client_order_id,
                    body |-> create_order_body(Ticker, side, "buy", count, "limit",
                                               yes_price, no_price, client_order_id)]
    /\ req' = [req EXCEPT ![t] = [NoReq EXCEPT !.name = CreateOrderEndpoint.name,
                                                !.method = CreateOrderEndpoint.method,
                                                !.path = CreateOrderEndpoint.path]]
    /\ pc' = [pc EXCEPT ![t] = "lock"]
    /\ UNCHANGED <<dryrun, lastRate, setupVars, twinVars, executorVars, clock, limiterVars, signerVars, environment, lastSend>>

\* The arguments callers give: either side, prices absent, zero and in
\* range, and a client_order_id absent, empty and non-empty.
OrderSides == {"yes", "no"}
OrderCounts == {1}
OrderPrices == {<<>>, <<0>>, <<50>>}
ClientOrderIds == {<<>>, <<"">>, <<"my-order-1">>}

\* One thread places orders through a client on the demo endpoint.
OrderInit == InitAt(0, {0, RpsDenom}, {"demo"}, {WriteCredentials})

OrderNext ==
    \/ \E side \in OrderSides, count \in OrderCounts, yes_price \in OrderPrices,
          no_price \in OrderPrices, client_order_id \in ClientOrderIds :
          CallCreateOrder(1, side, count, yes_price, no_price, client_order_id)
    \/ Acquire(1)
    \/ SignRequest(1)
    \/ \E status \in Statuses : SendOk(1, status)
    \/ \E status \in Statuses : SendFail(1, status)
    \/ SendRaise(1)
    \/ \E d \in LimiterSteps : Tick(d, ClientHorizon)

OrderSpec == OrderInit /\ [][OrderNext]_vars

\* ----------------------------------------------------------- configuration

apiVars == <<clock, limiterVars, pc, ncalls, signerVars, clientVars>>

\* str.lower(), character by character.
LowerChar(c) ==
    IF \E i \in 1..Len(UpperLetters) : UpperLetters[i] = c
    THEN LowerLetters[CHOOSE i \in 1..Len(UpperLetters) : UpperLetters[i] = c]
    ELSE c
Lower(str) == [i \in 1..Len(str) |-> LowerChar(str[i])]

\* Environment.X.value
EnvironmentValue(env) ==
    CASE env = "development" -> <<"d", "e", "v", "e", "l", "o", "p", "m", "e", "n", "t">>
      [] env = "demo" -> <<"d", "e", "m", "o">>
      [] env = "production" -> <<"p", "r", "o", "d", "u", "c", "t", "i", "o", "n">>

ConfirmationValue == "yes_i_understand_this_is_real_money"

\* os.getenv(name, default)
getenv(name, default) == IF environ[name].set THEN environ[name].value ELSE default

\* `not os.getenv(name)`: the variable is unset or empty.
Missing(name) == ~environ[name].set \/ environ[name].value = ""

Raise(kind) == [NoOutcome EXCEPT !.raised = kind]

\* get_environment() comparing env_str as given, without .lower().
get_environment_exact ==
    LET env_str == getenv("KALSHI_ENV", EnvironmentValue("development"))
    IN  IF env_str = EnvironmentValue("production")
        THEN IF getenv("KALSHI_PRODUCTION_CONFIRMED", "") # ConfirmationValue
             THEN Raise("production_blocked")
             ELSE [NoOutcome EXCEPT !.environment = "production"]
        ELSE IF env_str = EnvironmentValue("demo")
             THEN [NoOutcome EXCEPT !.environment = "demo"]
             ELSE [NoOutcome EXCEPT !.environment = "development"]
\* get_environment()
get_environment ==
    LET env_str == Lower(getenv("KALSHI_ENV", EnvironmentValue("development")))
    IN  IF env_str = EnvironmentValue("production")
        THEN IF getenv("KALSHI_PRODUCTION_CONFIRMED", "") # ConfirmationValue
             THEN Raise("production_blocked")
             ELSE [NoOutcome EXCEPT !.environment = "production"]
        ELSE IF env_str = EnvironmentValue("demo")
             THEN [NoOutcome EXCEPT !.environment = "demo"]
             ELSE [NoOutcome EXCEPT !.environment = "development"]

\* `environment or get_environment()`: every Environment member is truthy.
EnvironmentOr(argument) ==
    IF argument # "None"
    THEN [NoOutcome EXCEPT !.environment = argument]
    ELSE get_environment

\* get_api_base_url(environment), environment an Environment or None.
SelectBaseUrl(argument) ==
    LET env == EnvironmentOr(argument)
    IN  IF env.raised # "none" THEN env
        ELSE [env EXCEPT !.base_url = get_api_base_url(env.environment)]

\* KalshiCredentials.from_env(readonly)
KeyIdName(readonly) == IF readonly THEN "KALSHI_READONLY_KEY_ID" ELSE "KALSHI_WRITE_KEY_ID"
KeyName(readonly) == IF readonly THEN "KALSHI_READONLY_KEY" ELSE "KALSHI_WRITE_KEY"
from_env_any_pair(readonly) ==
    LET use == IF Missing(KeyIdName(readonly)) \/ Missing(KeyName(readonly))
               THEN ~readonly ELSE readonly
    IN  IF Missing(KeyIdName(use)) \/ Missing(KeyName(use))
        THEN Raise("missing_credential")
        ELSE [NoOutcome EXCEPT !.credentials =
                 [key_id |-> environ[KeyIdName(use)].value,
                  private_key |-> environ[KeyName(use)].value]]
from_env(readonly) ==
    IF Missing(KeyIdName(readonly)) THEN Raise("missing_credential")
    ELSE IF Missing(KeyName(readonly)) THEN Raise("missing_credential")
    ELSE [NoOutcome EXCEPT !.credentials =
             [key_id |-> environ[KeyIdName(readonly)].value,
              private_key |-> environ[KeyName(readonly)].value]]

\* KalshiClient.__init__(auth, environment): the client's auth, environment
\* and base_url.
client_init(credentials, argument) ==
    LET env == EnvironmentOr(argument)
    IN  IF env.raised # "none" THEN env
        ELSE [env EXCEPT !.base_url = get_api_base_url(env.environment),
                         !.credentials = credentials]

\* KalshiClient.from_env(readonly, environment)
client_from_env(readonly, argument) ==
    LET creds == from_env(readonly)
    IN  IF creds.raised # "none" THEN creds
        ELSE client_init(creds.credentials, argument)

\* The values the variables are set to: environments in lower and mixed
\* case and an unknown one, a wrong and the exact confirmation, an empty and
\* a proper value for each credential variable.
EnvValues(name) ==
    CASE name = "KALSHI_ENV" ->
            { <<"d", "e", "m", "o">>,
              <<"p", "r", "o", "d", "u", "c", "t", "i", "o", "n">>,
              <<"P", "r", "o", "d", "u", "c", "t", "i", "o", "n">>,
              <<"s", "t", "a", "g", "i", "n", "g">> }
      [] name = "KALSHI_PRODUCTION_CONFIRMED" -> {"yes", ConfirmationValue}
      [] name = "KALSHI_READONLY_KEY_ID" -> {"", ReadonlyCredentials.key_id}
      [] name = "KALSHI_READONLY_KEY" -> {"", ReadonlyCredentials.private_key}
      [] name = "KALSHI_WRITE_KEY_ID" -> {"", WriteCredentials.key_id}
      [] name = "KALSHI_WRITE_KEY" -> {"", WriteCredentials.private_key}

EnvironmentArguments == Environments \cup {"None"}

\* os.environ[name] = value
SetEnv(name, value) ==
    /\ environ' = [environ EXCEPT ![name] = [set |-> TRUE, value |-> value]]
    /\ built' = NoBuilt
    /\ UNCHANGED <<callVars, apiVars, twinVars, executorVars>>

\* os.environ.pop(name, None)
PopEnv(name) ==
    /\ environ' = [environ EXCEPT ![name] = UnsetOf(name)]
    /\ built' = NoBuilt
    /\ UNCHANGED <<callVars, apiVars, twinVars, executorVars>>

Called(call, readonly, argument, outcome) ==
    /\ built' = [call |-> call, readonly |-> readonly, argument |-> argument,
                 outcome |-> outcome]
    /\ UNCHANGED <<callVars, environ, apiVars, twinVars, executorVars>>

CallGetEnvironment == Called("get_environment", FALSE, "None", get_environment)
CallGetApiBaseUrl(argument) ==
    Called("get_api_base_url", FALSE, argument, SelectBaseUrl(argument))
CallCredentialsFromEnv(readonly) ==
    Called("KalshiCredentials.from_env", readonly, "None", from_env(readonly))
CallClientInit(credentials, argument) ==
    Called("KalshiClient", credentials = ReadonlyCredentials, argument,
           client_init(credentials, argument))
CallClientFromEnv(readonly, argument) ==
    Called("KalshiClient.from_env", readonly, argument,
           client_from_env(readonly, argument))

SetupInit == InitAt(0, {DefaultRps * RpsDenom}, {"development"}, {ReadonlyCredentials})

SetupNext ==
    \/ \E name \in EnvNames : \E value \in EnvValues(name) : SetEnv(name, value)
    \/ \E name \in EnvNames : PopEnv(name)
    \/ CallGetEnvironment
    \/ \E argument \in EnvironmentArguments : CallGetApiBaseUrl(argument)
    \/ \E readonly \in BOOLEAN : CallCredentialsFromEnv(readonly)
    \/ \E credentials \in Credentials, argument \in EnvironmentArguments :
          CallClientInit(credentials, argument)
    \/ \E readonly \in BOOLEAN, argument \in EnvironmentArguments :
          CallClientFromEnv(readonly, argument)

SetupSpec == SetupInit /\ [][SetupNext]_vars

\* ------------------------------------------------- RateLimiter, burst_size

\* acquire() by a single caller on the limiter `lim`, entered at clock
\* reading nw; the append reads the clock `late` after the sleep ended.  The
\* result is the limiter after the call, the call logged with the time it
\* slept and the timestamp it recorded.
acquire_burst_gate(lim, nw, late) ==
    LET pruned == PruneOld(lim.timestamps, nw)
    IN  IF ~(AtLimit(Len(pruned), lim.requests_per_second) \/ Len(pruned) >= lim.burst_size)
        THEN [lim EXCEPT !.timestamps = Append(pruned, nw + late),
                         !.calls = Append(@, [raised |-> FALSE, slept |-> 0,
                                              recorded |-> nw + late])]
        ELSE IF pruned = <<>>
        THEN [lim EXCEPT !.timestamps = pruned,
                         !.calls = Append(@, [raised |-> TRUE, slept |-> 0,
                                              recorded |-> 0])]
        ELSE LET sleep_time == SleepTime(Head(pruned), nw)
                 slept == IF sleep_time > 0 THEN sleep_time ELSE 0
             IN  [lim EXCEPT !.timestamps = Append(Tail(pruned), nw + slept + late),
                             !.calls = Append(@, [raised |-> FALSE, slept |-> slept,
                                                  recorded |-> nw + slept + late])]
acquire(lim, nw, late) ==
    LET pruned == PruneOld(lim.timestamps, nw)
    IN  IF ~AtLimit(Len(pruned), lim.requests_per_second)
        THEN [lim EXCEPT !.timestamps = Append(pruned, nw + late),
                         !.calls = Append(@, [raised |-> FALSE, slept |-> 0,
                                              recorded |-> nw + late])]
        ELSE IF pruned = <<>>
        THEN [lim EXCEPT !.timestamps = pruned,
                         !.calls = Append(@, [raised |-> TRUE, slept |-> 0,
                                              recorded |-> 0])]
        ELSE LET sleep_time == SleepTime(Head(pruned), nw)
                 slept == IF sleep_time > 0 THEN sleep_time ELSE 0
             IN  [lim EXCEPT !.timestamps = Append(Tail(pruned), nw + slept + late),
                             !.calls = Append(@, [raised |-> FALSE, slept |-> slept,
                                                  recorded |-> nw + slept + late])]

\* How long after the sleep the append reads the clock: at once, a
\* millisecond later.
TwinLate == {0, TicksPerMs}

\* The same acquire() call, at the same clock readings, on both limiters.
TwinAcquire(late) ==
    /\ \A burst \in BurstSizes : Len(twin[burst].calls) < MaxCalls
    /\ twin' = [burst \in BurstSizes |-> acquire(twin[burst], clock, late)]
    /\ clock' = LET done == twin'[DefaultBurstSize].calls
                IN  clock + done[Len(done)].slept + late
    /\ UNCHANGED <<callVars, limiterVars, pc, ncalls, signerVars, clientVars, setupVars, executorVars>>

TwinInit ==
    /\ ApiInitAt(0, {DefaultRps * RpsDenom}, {"development"}, {ReadonlyCredentials})
    /\ environ = NoEnviron
    /\ built = NoBuilt
    /\ CallsIdle
    /\ twin \in {Twins(rate) : rate \in RpsChoices}
    /\ ExecutorIdle

TwinNext ==
    \/ \E late \in TwinLate : TwinAcquire(late)
    \/ \E d \in LimiterSteps : Tick(d, MaxClock)

TwinSpec == TwinInit /\ [][TwinNext]_vars

\* ----------------------------------------------------------- TradeExecutor

\* str.strip()
Whitespace == {" ", "\t", "\n"}
RECURSIVE LStrip(_)
LStrip(str) == IF str # <<>> /\ Head(str) \in Whitespace THEN LStrip(Tail(str)) ELSE str
RECURSIVE RStrip(_)
RStrip(str) ==
    IF str # <<>> /\ str[Len(str)] \in Whitespace
    THEN RStrip(SubSeq(str, 1, Len(str) - 1))
    ELSE str
Strip(str) == RStrip(LStrip(str))

\* SafetyConfig.check_order_value(value_cents)
check_order_value_always(config, value_cents) == TRUE
check_order_value(config, value_cents) == ~(value_cents > config.max_order_value_cents)

\* SafetyConfig.check_daily_loss()
check_daily_loss(config) == ~(config.daily_pnl_cents < -config.max_daily_loss_cents)

\* is_safe_to_trade(): the daily-loss check of get_safety_config().
is_safe_to_trade(configs) == check_daily_loss(configs["global"])

\* confirm_trade(order_details), the user typing `response` if prompted: the
\* configuration read is get_safety_config().
confirm_trade_prompt_first(configs, response) ==
    LET config == configs["global"]
    IN  IF ~config.require_confirmation THEN TRUE
        ELSE IF config.dry_run THEN FALSE
        ELSE Strip(response) = <<"C", "O", "N", "F", "I", "R", "M">>
confirm_trade_no_strip(configs, response) ==
    LET config == configs["global"]
    IN  IF config.dry_run THEN FALSE
        ELSE IF ~config.require_confirmation THEN TRUE
        ELSE response = <<"C", "O", "N", "F", "I", "R", "M">>
confirm_trade(configs, response) ==
    LET config == configs["global"]
    IN  IF config.dry_run THEN FALSE
        ELSE IF ~config.require_confirmation THEN TRUE
        ELSE Strip(response) = <<"C", "O", "N", "F", "I", "R", "M">>

\* confirm_trade reaches input(): neither early return was taken.
confirm_trade_prompts(configs) ==
    LET config == configs["global"]
    IN  ~config.dry_run /\ config.require_confirmation

\* price_cents or 50
PriceOr(price_cents, default) ==
    IF price_cents = <<>> \/ price_cents[1] = 0 THEN default ELSE price_cents[1]

\* result["order"]["order_id"] of a create_order call that returned.
PlacedOrderId == "order-1"

\* Line 181, result.get("order", {}).get("order_id", "unknown"), for what
\* client.create_order did: it raised, or it returned the response's JSON
\* with an order_id string ("ok"), without an "order" key, with "order":
\* null (None has no .get: AttributeError), with an order without
\* "order_id", or with "order_id": null.
order_id_of(outcome) ==
    CASE outcome = "ok" -> [raised |-> FALSE, order_id |-> PlacedOrderId]
      [] outcome \in {"no_order", "no_order_id"} -> [raised |-> FALSE, order_id |-> "unknown"]
      [] outcome = "null_order_id" -> [raised |-> FALSE, order_id |-> "None"]
      [] outcome = "null_order" -> [raised |-> TRUE, order_id |-> "None"]
      [] outcome = "raise" -> [raised |-> TRUE, order_id |-> "None"]

\* TradeExecutor.execute(signal, ticker, contracts, price_cents) on the
\* executor whose self.safety is configs[safety]; `outcome` is what
\* client.create_order does if called.
execute(configs, safety, signal, confidence, contracts, price_cents, response, outcome) ==
    LET call == [NoExec EXCEPT !.op = "execute", !.signal = signal,
                               !.confidence = confidence, !.contracts = contracts,
                               !.price_cents = price_cents]
        estimated_value == contracts * PriceOr(price_cents, DefaultPriceCents)
    IN  IF signal = "hold"
        THEN [call EXCEPT !.checks = <<"signal">>, !.failed = "signal"]
        ELSE IF confidence < MinConfidencePct
        THEN [call EXCEPT !.checks = <<"signal", "confidence">>, !.failed = "confidence"]
        ELSE IF ~is_safe_to_trade(configs)
        THEN [call EXCEPT !.checks = <<"signal", "confidence", "daily_loss">>,
                          !.failed = "daily_loss"]
        ELSE IF ~check_order_value(configs[safety], estimated_value)
        THEN [call EXCEPT !.checks = <<"signal", "confidence", "daily_loss", "order_value">>,
                          !.failed = "order_value"]
        ELSE IF ~confirm_trade(configs, response)
        THEN [call EXCEPT !.checks = <<"signal", "confidence", "daily_loss", "order_value",
                                       "confirm">>,
                          !.failed = "confirm", !.confirmed = "False"]
        ELSE [call EXCEPT !.checks = <<"signal", "confidence", "daily_loss", "order_value",
                                       "confirm">>,
                          !.confirmed = "True", !.create_orders = 1,
                          !.create_order = outcome,
                          !.executed = ~order_id_of(outcome).raised,
                          !.order_id = order_id_of(outcome).order_id]

\* The inputs of execute(): the three signals, confidences just below and at
\* the minimum, order sizes whose estimated value lies on both sides of the
\* limits, a price of None, 0 and 60 cents, what the user types, and
\* whether client.create_order raises or what it returns.
Signals == {"buy", "sell", "hold"}
Confidences == {MinConfidencePct - 1, MinConfidencePct}
ContractCounts == {1, 21}
Prices == {<<>>, <<0>>, <<60>>}
Responses == { <<"C", "O", "N", "F", "I", "R", "M">>,
               <<" ", "C", "O", "N", "F", "I", "R", "M", " ">>,
               <<"n", "o">> }
OrderOutcomes == {"ok", "raise", "no_order", "null_order", "no_order_id", "null_order_id"}
MaxOrderValues == {DefaultMaxOrderValueCents, DefaultMaxOrderValueCents + 100}
PnlValues == {-(DefaultMaxDailyLossCents + 1), -DefaultMaxDailyLossCents, 0}
PnlAmounts == {a - b : a, b \in PnlValues} \ {0}

\* executor.execute(...), by a caller that has taken the previous result.
Execute(signal, confidence, contracts, price_cents, response, outcome) ==
    /\ lastExec = NoExec
    /\ lastExec' = execute(safety_configs, executor_safety, signal, confidence,
                           contracts, price_cents, response, outcome)
    /\ UNCHANGED <<callVars, safety_configs, executor_safety, apiVars, setupVars, twinVars>>

\* executor.execute_dry_run(...): dry_run of self.safety is forced to True
\* for the call and restored after it.
ExecuteDryRun(signal, confidence, contracts, price_cents, response, outcome) ==
    LET original_dry_run == safety_configs[executor_safety].dry_run
        forced == [safety_configs EXCEPT ![executor_safety].dry_run = TRUE]
    IN  /\ lastExec = NoExec
        /\ lastExec' = [execute(forced, executor_safety, signal, confidence,
                                contracts, price_cents, response, outcome)
                            EXCEPT !.op = "execute_dry_run"]
        /\ safety_configs' = [forced EXCEPT ![executor_safety].dry_run = original_dry_run]
        /\ UNCHANGED <<callVars, executor_safety, apiVars, setupVars, twinVars>>

\* A direct confirm_trade(order_details) call, the user typing `response` if
\* prompted.
CallConfirmTrade(response) ==
    /\ lastExec = NoExec
    /\ lastExec' = [NoExec EXCEPT
                       !.op = "confirm_trade",
                       !.response = response,
                       !.prompted = confirm_trade_prompts(safety_configs),
                       !.confirmed = IF confirm_trade(safety_configs, response)
                                     THEN "True" ELSE "False"]
    /\ UNCHANGED <<callVars, safety_configs, executor_safety, apiVars, setupVars, twinVars>>

\* The caller takes the ExecutionResult.
TakeResult ==
    /\ lastExec # NoExec
    /\ lastExec' = NoExec
    /\ UNCHANGED <<callVars, safety_configs, executor_safety, apiVars, setupVars, twinVars>>

\* Assignments to the fields of a SafetyConfig, and its P&L methods.
Configure(ref, field, value) ==
    /\ safety_configs' = [safety_configs EXCEPT ![ref][field] = value]
    /\ lastExec' = NoExec
    /\ UNCHANGED <<callVars, executor_safety, apiVars, setupVars, twinVars>>
SetDryRun(ref, value) == Configure(ref, "dry_run", value)
SetRequireConfirmation(ref, value) == Configure(ref, "require_confirmation", value)
SetMaxOrderValue(ref, value) == Configure(ref, "max_order_value_cents", value)
RecordPnl(ref, pnl_cents) ==
    /\ safety_configs[ref].daily_pnl_cents + pnl_cents \in PnlValues
    /\ Configure(ref, "daily_pnl_cents", safety_configs[ref].daily_pnl_cents + pnl_cents)
ResetDailyPnl(ref) == Configure(ref, "daily_pnl_cents", 0)

\* A process with the global SafetyConfig at its defaults and a TradeExecutor
\* built on it or on a custom SafetyConfig().
ExecutorInit ==
    /\ ApiInitAt(0, {DefaultRps * RpsDenom}, {"development"}, {ReadonlyCredentials})
    /\ environ = NoEnviron
    /\ built = NoBuilt
    /\ CallsIdle
    /\ twin = Twins(DefaultRps * RpsDenom)
    /\ safety_configs = [ref \in ConfigRefs |-> DefaultSafetyConfig]
    /\ executor_safety \in ConfigRefs
    /\ lastExec = NoExec

ExecutorNext ==
    \/ \E signal \in Signals, confidence \in Confidences, contracts \in ContractCounts,
          price_cents \in Prices, response \in Responses, outcome \in OrderOutcomes :
            \/ Execute(signal, confidence, contracts, price_cents, response, outcome)
            \/ ExecuteDryRun(signal, confidence, contracts, price_cents, response, outcome)
    \/ \E ref \in ConfigRefs :
            \/ \E value \in BOOLEAN : SetDryRun(ref, value)
            \/ \E value \in BOOLEAN : SetRequireConfirmation(ref, value)
            \/ \E value \in MaxOrderValues : SetMaxOrderValue(ref, value)
            \/ \E pnl_cents \in PnlAmounts : RecordPnl(ref, pnl_cents)
            \/ ResetDailyPnl(ref)
    \/ \E response \in Responses : CallConfirmTrade(response)
    \/ TakeResult

ExecutorSpec == ExecutorInit /\ [][ExecutorNext]_vars

\* ------------------------------------------- TradeExecutor, several threads

\* The threads that call the one executor.
ExecutorThreads == {1, 2}

CallingExecutor(t) == dryrun[t].pc \notin {"idle", "done"}

\* A thread calls execute_dry_run(...): dry_run of self.safety is as the
\* caller finds it.
DryRunCall(t) ==
    /\ ~CallingExecutor(t)
    /\ dryrun' = [dryrun EXCEPT ![t] =
                     [NoDryRun EXCEPT !.op = "execute_dry_run", !.pc = "save",
                                      !.entry_dry_run =
                                          safety_configs[executor_safety].dry_run]]
    /\ UNCHANGED <<lastBody, lastRate, executorVars, apiVars, setupVars, twinVars>>

\* Line 214: original_dry_run = self.safety.dry_run
DryRunSave(t) ==
    /\ dryrun[t].pc = "save"
    /\ dryrun' = [dryrun EXCEPT ![t].original_dry_run =
                                     safety_configs[executor_safety].dry_run,
                                 ![t].pc = "force"]
    /\ UNCHANGED <<lastBody, lastRate, executorVars, apiVars, setupVars, twinVars>>

\* Line 215: self.safety.dry_run = True
DryRunForce(t) ==
    /\ dryrun[t].pc = "force"
    /\ safety_configs' = [safety_configs EXCEPT ![executor_safety].dry_run = TRUE]
    /\ dryrun' = [dryrun EXCEPT ![t].pc = "execute"]
    /\ UNCHANGED <<lastBody, lastRate, executor_safety, lastExec, apiVars, setupVars, twinVars>>

\* Line 218: self.execute(signal, ticker, contracts, price_cents)
DryRunExecute(t, signal, confidence, contracts, price_cents, response, outcome) ==
    /\ dryrun[t].pc = "execute"
    /\ dryrun' = [dryrun EXCEPT
                     ![t].create_orders =
                         execute(safety_configs, executor_safety, signal, confidence,
                                 contracts, price_cents, response, outcome).create_orders,
                     ![t].pc = "restore"]
    /\ UNCHANGED <<lastBody, lastRate, executorVars, apiVars, setupVars, twinVars>>

\* Lines 219-221: finally: self.safety.dry_run = original_dry_run, and the
\* call returns; dry_run is as the caller finds it on return.
DryRunRestore(t) ==
    /\ dryrun[t].pc = "restore"
    /\ safety_configs' = [safety_configs EXCEPT
                             ![executor_safety].dry_run = dryrun[t].original_dry_run]
    /\ dryrun' = [dryrun EXCEPT ![t].pc = "done",
                                 ![t].exit_dry_run = dryrun[t].original_dry_run]
    /\ UNCHANGED <<lastBody, lastRate, executor_safety, lastExec, apiVars, setupVars, twinVars>>

\* A thread calls execute(...), which writes no setting.
ThreadExecute(t, signal, confidence, contracts, price_cents, response, outcome) ==
    /\ ~CallingExecutor(t)
    /\ dryrun' = [dryrun EXCEPT ![t] =
                     [NoDryRun EXCEPT
                        !.op = "execute", !.pc = "done",
                        !.entry_dry_run = safety_configs[executor_safety].dry_run,
                        !.exit_dry_run = safety_configs[executor_safety].dry_run,
                        !.create_orders =
                            execute(safety_configs, executor_safety, signal, confidence,
                                    contracts, price_cents, response,
                                    outcome).create_orders]]
    /\ UNCHANGED <<lastBody, lastRate, executorVars, apiVars, setupVars, twinVars>>

\* The executor is built on the global or on a custom configuration, with
\* dry_run and require_confirmation as the process set them before the
\* threads start.
DryRunInit ==
    /\ ApiInitAt(0, {DefaultRps * RpsDenom}, {"development"}, {ReadonlyCredentials})
    /\ environ = NoEnviron
    /\ built = NoBuilt
    /\ CallsIdle
    /\ twin = Twins(DefaultRps * RpsDenom)
    /\ safety_configs \in
          { [ref \in ConfigRefs |->
                [DefaultSafetyConfig EXCEPT !.dry_run = dry[ref],
                                            !.require_confirmation = confirm]] :
              dry \in [ConfigRefs -> BOOLEAN], confirm \in BOOLEAN }
    /\ executor_safety \in ConfigRefs
    /\ lastExec = NoExec

DryRunNext ==
    \E t \in ExecutorThreads :
        \/ DryRunCall(t)
        \/ DryRunSave(t)
        \/ DryRunForce(t)
        \/ DryRunRestore(t)
        \/ \E signal \in Signals, confidence \in Confidences, contracts \in ContractCounts,
              price_cents \in Prices, response \in Responses, outcome \in OrderOutcomes :
                \/ DryRunExecute(t, signal, confidence, contracts, price_cents,
                                 response, outcome)
                \/ ThreadExecute(t, signal, confidence, contracts, price_cents,
                                 response, outcome)

DryRunSpec == DryRunInit /\ [][DryRunNext]_vars

\* ----------------------------------------------------- RateLimiter claims

\* requests_per_second is a whole number of requests, at least 1.
IntegerRate == rpsNum >= RpsDenom /\ rpsNum % RpsDenom = 0
R == rpsNum \div RpsDenom

\* The recorded admissions inside the trailing window (endt - 1.0, endt], the
\* window current_rate counts.
WindowCount(endt) ==
    Cardinality({i \in 1..Len(admitLog) :
                    admitLog[i].ts > endt - Second /\ admitLog[i].ts <= endt})

\* C1: with requests_per_second = R and K > R concurrent callers, under every
\* interleaving no trailing 1-second window, ending at any recorded admission
\* or at the present instant, holds more than R recorded admissions.
C1_WindowNeverExceedsRate ==
    (IntegerRate /\ NumThreads > R) =>
        /\ WindowCount(clock) <= R
        /\ \A i \in 1..Len(admitLog) : WindowCount(admitLog[i].ts) <= R

\* C1 witness: every one of the K > R callers has been admitted once, and at
\* least one of them had to sleep.
C1_Witness ==
    /\ IntegerRate
    /\ NumThreads > R
    /\ \A t \in Threads : pc[t] = "returned"
    /\ Len(admitLog) = NumThreads
    /\ \E i \in 1..Len(admitLog) : admitLog[i].slept

\* C2: acquire() never raises, for every state of the window and every
\* configured requests_per_second, 0 and negative values included.
C2_AcquireNeverRaises == \A t \in Threads : pc[t] # "IndexError"

\* C3: immediately after an acquire() returns (the lock is free again and no
\* other caller has entered), the number of retained timestamps and the value
\* of current_rate are at most requests_per_second, whole or fractional.
C3_WindowWithinRate ==
    (lock = NoThread /\ admitLog # <<>>) =>
        /\ Len(timestamps) * RpsDenom <= rpsNum
        /\ current_rate(timestamps, clock) * RpsDenom <= rpsNum

\* C4: with requests_per_second = R, the first R calls on an empty window do
\* not sleep; a call that finds R timestamps retained, the oldest of them less
\* than 1.0 second old, sleeps, and the timestamp it records is read after the
\* sleep: it is at least 1.0 second after that oldest timestamp.
C4_BurstThenSleep ==
    IntegerRate =>
        \A i \in 1..Len(admitLog) :
            /\ i <= R => ~admitLog[i].slept
            /\ (admitLog[i].retained >= R /\ admitLog[i].now < admitLog[i].oldest + Second) =>
                    /\ admitLog[i].slept
                    /\ admitLog[i].ts >= admitLog[i].oldest + Second
                    /\ admitLog[i].ts > admitLog[i].now

\* C4 witness: R = 2, two calls admitted without sleeping and a third, issued
\* within a second of the first, admitted after sleeping.
C4_Witness ==
    /\ rpsNum = 2 * RpsDenom
    /\ Len(admitLog) >= 3
    /\ ~admitLog[1].slept
    /\ ~admitLog[2].slept
    /\ admitLog[3].slept
    /\ admitLog[3].oldest = admitLog[1].ts
    /\ admitLog[3].now < admitLog[1].ts + Second

\* ------------------------------------------------------ KalshiAuth claims

\* The number a decimal string denotes.
RECURSIVE DecVal(_)
DecVal(str) ==
    IF str = <<>> THEN 0
    ELSE 10 * DecVal(SubSeq(str, 1, Len(str) - 1))
         + (CHOOSE d \in 0..9 : Digits[d + 1] = str[Len(str)])

\* str is the decimal string of the whole milliseconds of clock reading clk.
IsMillisOf(str, clk) ==
    /\ str # <<>>
    /\ \A i \in 1..Len(str) : \E d \in 0..9 : Digits[d + 1] = str[i]
    /\ Len(str) > 1 => str[1] # "0"
    /\ DecVal(str) * TicksPerMs <= clk
    /\ clk < (DecVal(str) + 1) * TicksPerMs

\* The positions at which two strings of one length differ.
Differences(a, b) == Cardinality({i \in 1..Len(a) : a[i] # b[i]})

\* Two (timestamp, method, path) triples that differ in exactly one byte.
OneByteApart(x, y) ==
    /\ \A k \in 1..3 : Len(x[k]) = Len(y[k])
    /\ Differences(x[1], y[1]) + Differences(x[2], y[2]) + Differences(x[3], y[3]) = 1

\* The triple of a logged call, with the method as the caller passed it, and
\* with the method in upper case.
RawTriple(e) == <<e.headers.timestamp, e.method, e.path>>
UpperTriple(e) == <<e.headers.timestamp, Upper(e.method), e.path>>
Concat(x) == x[1] \o x[2] \o x[3]

\* C8 (as stated): every call returns the key id, the clock reading at that
\* call in whole milliseconds, and a signature over exactly
\* timestamp + method + path, the method as passed.
C8_SignsTripleAsPassed ==
    \A i \in 1..Len(authLog) :
        /\ authLog[i].headers.key = auth.key_id
        /\ IsMillisOf(authLog[i].headers.timestamp, authLog[i].clock)
        /\ Verifies(auth.private_key, Concat(RawTriple(authLog[i])),
                    authLog[i].headers.signature)

\* C8 (amended): every call returns the key id, the clock reading at that call
\* in whole milliseconds as a decimal string, and a signature over exactly
\* timestamp + method.upper() + path with that same timestamp.
C8_SignsUpperTriple ==
    \A i \in 1..Len(authLog) :
        /\ authLog[i].headers.key = auth.key_id
        /\ IsMillisOf(authLog[i].headers.timestamp, authLog[i].clock)
        /\ Verifies(auth.private_key, Concat(UpperTriple(authLog[i])),
                    authLog[i].headers.signature)

\* C8 witness: a call with a method not in upper case, followed by a later
\* call that returned a later timestamp.
C8_Witness ==
    /\ Len(authLog) = 2
    /\ authLog[1].method # Upper(authLog[1].method)
    /\ authLog[2].clock > authLog[1].clock
    /\ authLog[2].headers.timestamp # authLog[1].headers.timestamp

\* C9 (as stated): two calls for one (method, path) at different clock
\* instants return different timestamps and different signatures, each valid
\* for its own (timestamp, method, path).
C9_DifferentInstants ==
    \A i, j \in 1..Len(authLog) :
        (/\ i < j
         /\ authLog[i].method = authLog[j].method
         /\ authLog[i].path = authLog[j].path
         /\ authLog[i].clock # authLog[j].clock) =>
            /\ authLog[i].headers.timestamp # authLog[j].headers.timestamp
            /\ authLog[i].headers.signature # authLog[j].headers.signature
            /\ Verifies(auth.private_key, Concat(RawTriple(authLog[i])),
                        authLog[i].headers.signature)
            /\ Verifies(auth.private_key, Concat(RawTriple(authLog[j])),
                        authLog[j].headers.signature)

\* C9 (amended): two calls for one (method, path) at clock instants that lie
\* in different milliseconds return different timestamps and sign different
\* messages, each signature valid for its own
\* (timestamp, method.upper(), path).
C9_DifferentMilliseconds ==
    \A i, j \in 1..Len(authLog) :
        (/\ i < j
         /\ authLog[i].method = authLog[j].method
         /\ authLog[i].path = authLog[j].path
         /\ authLog[i].clock \div TicksPerMs # authLog[j].clock \div TicksPerMs) =>
            /\ authLog[i].headers.timestamp # authLog[j].headers.timestamp
            /\ authLog[i].headers.signature.over # authLog[j].headers.signature.over
            /\ authLog[i].headers.signature # authLog[j].headers.signature
            /\ Verifies(auth.private_key, Concat(UpperTriple(authLog[i])),
                        authLog[i].headers.signature)
            /\ Verifies(auth.private_key, Concat(UpperTriple(authLog[j])),
                        authLog[j].headers.signature)
            /\ ~Verifies(auth.private_key, Concat(UpperTriple(authLog[j])),
                         authLog[i].headers.signature)

\* C9 witness: the same method and path signed in two different
\* milliseconds, the timestamps of different lengths.
C9_Witness ==
    /\ Len(authLog) = 2
    /\ authLog[1].method = authLog[2].method
    /\ authLog[1].path = authLog[2].path
    /\ authLog[1].clock \div TicksPerMs # authLog[2].clock \div TicksPerMs
    /\ Len(authLog[1].headers.timestamp) # Len(authLog[2].headers.timestamp)

\* C10 (as stated): two (timestamp, method, path) triples that differ in one
\* byte never map to the same signed message, and the signature made for one
\* does not verify for the other.
C10_TamperAnyByte ==
    \A i, j \in 1..Len(authLog) :
        OneByteApart(RawTriple(authLog[i]), RawTriple(authLog[j])) =>
            /\ authLog[i].headers.signature.over # authLog[j].headers.signature.over
            /\ ~Verifies(auth.private_key, Concat(RawTriple(authLog[j])),
                         authLog[i].headers.signature)

\* C10 (amended): two triples that differ in one byte of the timestamp, of
\* the upper-cased method or of the path never map to the same signed
\* message, and the signature made for one does not verify for the other.
C10_TamperUpperTriple ==
    \A i, j \in 1..Len(authLog) :
        OneByteApart(UpperTriple(authLog[i]), UpperTriple(authLog[j])) =>
            /\ authLog[i].headers.signature.over # authLog[j].headers.signature.over
            /\ ~Verifies(auth.private_key, Concat(UpperTriple(authLog[j])),
                         authLog[i].headers.signature)

\* C10 witness: two signed triples one byte apart, the byte in the path.
C10_Witness ==
    /\ Len(authLog) = 2
    /\ OneByteApart(UpperTriple(authLog[1]), UpperTriple(authLog[2]))
    /\ authLog[1].path # authLog[2].path


C5_AdmitThenSignThenSend ==
    /\ \A t \in ClientThreads :
          /\ pc[t] = "sign" => req[t].admits = 1
          /\ pc[t] = "send" => /\ req[t].admitsAtSign = 1
                               /\ req[t].signs = req[t].sends + 1
    /\ lastSend # NoSend =>
          /\ lastSend.admits = 1
          /\ lastSend.admitsAtSign = 1
          /\ lastSend.signs = lastSend.sends
          /\ lastSend.headers.key = auth.key_id
          /\ DecVal(lastSend.headers.timestamp) >= lastSend.admittedAt \div TicksPerMs
          /\ Verifies(auth.private_key,
                      lastSend.headers.timestamp \o Upper(lastSend.method)
                          \o FullPath(lastSend.path),
                      lastSend.headers.signature)

\* C5 witness: create_order has reached the transport after its caller slept
\* in acquire().
C5_Witness ==
    /\ lastSend.name = "create_order"
    /\ lastSend.sends = 1
    /\ \E i \in 1..Len(admitLog) :
          admitLog[i].slept /\ admitLog[i].ts = lastSend.admittedAt

\* C6: a request whose response is not 2xx ends in an error carrying that
\* status after exactly one transport call; a request whose response is 2xx
\* returns the parsed body after exactly one transport call.
C6_OneAttempt ==
    /\ lastSend.sends <= 1
    /\ \A t \in ClientThreads :
          /\ pc[t] = "HTTPStatusError" =>
                /\ req[t].sends = 1
                /\ ~IsSuccess(req[t].status)
                /\ req[t].result = [kind |-> "HTTPStatusError", status |-> req[t].status]
          /\ pc[t] = "returned" =>
                /\ req[t].sends = 1
                /\ IsSuccess(req[t].status)
                /\ req[t].result = [kind |-> "json", status |-> req[t].status]

\* C6 witness: a request answered with 429 has raised.
C6_Witness ==
    \E t \in ClientThreads :
        /\ pc[t] = "HTTPStatusError"
        /\ req[t].status = 429
        /\ req[t].sends = 1
        /\ lastSend.status = 429

\* C7: for every endpoint path and both base URLs, the path the signature
\* covers is the path of the URL the transport sends, and the method signed
\* is the method sent: the signature verifies for timestamp + method sent +
\* path of the URL sent.
C7_SignedPathIsSentPath ==
    lastSend # NoSend =>
        /\ FullPath(lastSend.path) = UrlPath(lastSend.url)
        /\ Verifies(auth.private_key,
                    lastSend.headers.timestamp \o lastSend.method \o UrlPath(lastSend.url),
                    lastSend.headers.signature)

\* C7 witness: get_orderbook sent to the production endpoint.
C7_Witness ==
    /\ environment = "production"
    /\ lastSend.name = "get_orderbook"
    /\ UrlPath(lastSend.url) =
          <<"/", "t", "r", "a", "d", "e", "-", "a", "p", "i", "/", "v", "2", "/", "m", "a", "r", "k", "e", "t", "s", "/", "B", "T", "C", "/", "o", "r", "d", "e", "r", "b", "o", "o", "k">>

\* C13 (as stated): a KalshiClient whose environment is DEVELOPMENT never
\* issues a request to the HTTP transport.
C13_DevelopmentNeverSends ==
    environment = "development" => lastSend = NoSend

\* C26 (as stated): create_order passes a caller-supplied client_order_id
\* through verbatim.  Whenever the caller supplied a client_order_id (any
\* string), the body holds client_order_id equal to it; and yes_price and
\* no_price are in the body, with the values given, exactly when they are
\* not None.
C26_ClientOrderIdVerbatim ==
    lastBody.called =>
        /\ lastBody.client_order_id # <<>> =>
               lastBody.body.client_order_id = lastBody.client_order_id
        /\ lastBody.body.yes_price = lastBody.yes_price
        /\ lastBody.body.no_price = lastBody.no_price

\* C27: a request that has reached the transport has recorded exactly one
\* timestamp in the shared window, whether the transport call then succeeds,
\* answers with a non-2xx status or raises; and a failed request does not
\* give its slot back: the step in which the transport call ends leaves the
\* window and the record of admissions as they were.
C27_OneSlotPerRequest ==
    [][\A t \in ClientThreads :
          /\ pc'[t] \in {"sign", "send"} =>
                 /\ req'[t].admits = 1
                 /\ \E i \in 1..Len(admitLog') : admitLog'[i].ts = req'[t].admittedAt
          /\ req'[t].sends >= 1 => req'[t].admits = 1
          /\ (pc[t] = "send" /\ pc'[t] # "send") =>
                 /\ pc'[t] \in {"returned", "HTTPStatusError", "TransportError"}
                 /\ req'[t].sends = req[t].sends + 1
                 /\ req'[t].admits = req[t].admits
                 /\ timestamps' = timestamps
                 /\ admitLog' = admitLog]_vars

\* C27 witness: one request ended because the transport raised and another
\* ended on a non-2xx answer, each after one admission; both admissions are
\* on record and the later one's timestamp is still in the window.
C27_Witness ==
    /\ \E t \in ClientThreads :
          pc[t] = "TransportError" /\ req[t].admits = 1 /\ req[t].sends = 1
    /\ \E t \in ClientThreads :
          pc[t] = "HTTPStatusError" /\ req[t].admits = 1 /\ req[t].sends = 1
    /\ Len(admitLog) = 2
    /\ timestamps # <<>>
    /\ timestamps[Len(timestamps)] = admitLog[2].ts

\* --------------------------------------------------- configuration claims

\* C12 (as stated): production selection fails closed.  Whenever a
\* configuration call (get_environment, get_api_base_url, the KalshiClient
\* constructor, KalshiClient.from_env; environment detected or passed
\* explicitly) returned the production environment or the production base
\* URL, KALSHI_PRODUCTION_CONFIRMED holds the exact confirmation value.
C12_ProductionFailsClosed ==
    (/\ built.outcome.raised = "none"
     /\ \/ built.outcome.environment = "production"
        \/ built.outcome.base_url = get_api_base_url("production")) =>
        /\ environ["KALSHI_PRODUCTION_CONFIRMED"].set
        /\ environ["KALSHI_PRODUCTION_CONFIRMED"].value = "yes_i_understand_this_is_real_money"

\* C16: KalshiCredentials.from_env(readonly), called directly or by
\* KalshiClient.from_env, raises when the key id or the key of the selected
\* pair is unset or empty, and otherwise returns the read-only pair exactly
\* when readonly is True and the write pair exactly when it is False; it
\* never returns a default or a value of the other pair.
C16_CredentialsLoudAndUnmixed ==
    built.call \in {"KalshiCredentials.from_env", "KalshiClient.from_env"} =>
        LET id == IF built.readonly THEN environ["KALSHI_READONLY_KEY_ID"]
                                    ELSE environ["KALSHI_WRITE_KEY_ID"]
            key == IF built.readonly THEN environ["KALSHI_READONLY_KEY"]
                                     ELSE environ["KALSHI_WRITE_KEY"]
            absent == ~id.set \/ id.value = "" \/ ~key.set \/ key.value = ""
        IN  /\ absent => /\ built.outcome.raised = "missing_credential"
                         /\ built.outcome.credentials = NoCredentials
            /\ built.outcome.raised = "missing_credential" => absent
            /\ built.outcome.raised = "none" =>
                  built.outcome.credentials =
                      IF built.readonly THEN ReadonlyCredentials ELSE WriteCredentials
            /\ (~absent /\ built.call = "KalshiCredentials.from_env") =>
                  built.outcome.raised = "none"

\* C16 witness: from_env(readonly=False) raised because KALSHI_WRITE_KEY is
\* empty, while the read-only pair is fully set.
C16_Witness ==
    /\ built.call = "KalshiCredentials.from_env"
    /\ ~built.readonly
    /\ environ["KALSHI_WRITE_KEY_ID"].set /\ environ["KALSHI_WRITE_KEY_ID"].value # ""
    /\ environ["KALSHI_WRITE_KEY"].set /\ environ["KALSHI_WRITE_KEY"].value = ""
    /\ ~Missing("KALSHI_READONLY_KEY_ID") /\ ~Missing("KALSHI_READONLY_KEY")
    /\ built.outcome.raised = "missing_credential"

\* The two endpoints, and KALSHI_ENV as the process holds it.
DemoBaseUrl ==
    <<"h", "t", "t", "p", "s", ":", "/", "/", "d", "e", "m", "o", "-", "a", "p", "i", ".", "k", "a", "l", "s", "h", "i", ".", "c", "o", "/", "t", "r", "a", "d", "e", "-", "a", "p", "i", "/", "v", "2">>
ProductionBaseUrl ==
    <<"h", "t", "t", "p", "s", ":", "/", "/", "a", "p", "i", ".", "e", "l", "e", "c", "t", "i", "o", "n", "s", ".", "k", "a", "l", "s", "h", "i", ".", "c", "o", "m", "/", "t", "r", "a", "d", "e", "-", "a", "p", "i", "/", "v", "2">>
EnvSet == environ["KALSHI_ENV"].set
EnvRaw == environ["KALSHI_ENV"].value
Confirmed ==
    /\ environ["KALSHI_PRODUCTION_CONFIRMED"].set
    /\ environ["KALSHI_PRODUCTION_CONFIRMED"].value = "yes_i_understand_this_is_real_money"

\* A call that returned a base URL returned one of the two endpoints, the
\* production one exactly for PRODUCTION.
TwoEndpoints ==
    (built.outcome.raised = "none" /\ built.outcome.base_url # <<>>) =>
        /\ built.outcome.environment \in Environments
        /\ built.outcome.base_url \in {DemoBaseUrl, ProductionBaseUrl}
        /\ built.outcome.base_url = ProductionBaseUrl <=>
               built.outcome.environment = "production"

\* C25 (as stated): get_environment() maps KALSHI_ENV "demo" to DEMO,
\* "production" (confirmed) to PRODUCTION, and an unset or any other value to
\* DEVELOPMENT; DEVELOPMENT and DEMO resolve to the demo base URL and only
\* PRODUCTION to the production base URL.
C25_EnvironmentMapping ==
    /\ built.call = "get_environment" =>
          /\ (EnvSet /\ EnvRaw = <<"d", "e", "m", "o">>) =>
                 built.outcome = [NoOutcome EXCEPT !.environment = "demo"]
          /\ (EnvSet /\ EnvRaw = <<"p", "r", "o", "d", "u", "c", "t", "i", "o", "n">>
                    /\ Confirmed) =>
                 built.outcome = [NoOutcome EXCEPT !.environment = "production"]
          /\ (~EnvSet \/ EnvRaw \notin {<<"d", "e", "m", "o">>,
                                        <<"p", "r", "o", "d", "u", "c", "t", "i", "o", "n">>}) =>
                 built.outcome = [NoOutcome EXCEPT !.environment = "development"]
    /\ TwoEndpoints

\* C25 (amended): the mapping is on the lower-cased value.  A value that
\* lower-cases to "demo" gives DEMO; one that lower-cases to "production"
\* gives PRODUCTION when confirmed and raises when not; an unset or any
\* other value gives DEVELOPMENT.  The base URLs are as stated.
C25_EnvironmentMappingLowered ==
    /\ built.call = "get_environment" =>
          /\ (EnvSet /\ Lower(EnvRaw) = <<"d", "e", "m", "o">>) =>
                 built.outcome = [NoOutcome EXCEPT !.environment = "demo"]
          /\ (EnvSet /\ Lower(EnvRaw) = <<"p", "r", "o", "d", "u", "c", "t", "i", "o", "n">>) =>
                 built.outcome = IF Confirmed
                                 THEN [NoOutcome EXCEPT !.environment = "production"]
                                 ELSE [NoOutcome EXCEPT !.raised = "production_blocked"]
          /\ (~EnvSet \/ Lower(EnvRaw) \notin {<<"d", "e", "m", "o">>,
                                               <<"p", "r", "o", "d", "u", "c", "t", "i", "o", "n">>}) =>
                 built.outcome = [NoOutcome EXCEPT !.environment = "development"]
    /\ TwoEndpoints

\* C25 witness: get_environment() returned PRODUCTION with KALSHI_ENV set to
\* "Production" and the confirmation given.
C25_Witness ==
    /\ built.call = "get_environment"
    /\ EnvSet
    /\ EnvRaw = <<"P", "r", "o", "d", "u", "c", "t", "i", "o", "n">>
    /\ Confirmed
    /\ built.outcome.environment = "production"

\* ------------------------------------------------ RateLimiter claims, more

\* A caller is inside the prune-check-sleep-record sequence of acquire().
Inside(t) == pc[t] \in {"check", "sleep", "record"}

\* C17: admissions are serialized through one lock held across the whole
\* prune-check-sleep-record sequence.  After every step at most one caller is
\* inside the sequence and it holds the lock; and while a caller sleeps
\* inside acquire(), no step lets another caller enter the sequence, changes
\* the timestamps other than by the sleeper's own wake-up, or records an
\* admission.
C17_SerializedByLock ==
    [][/\ Cardinality({t \in Threads : Inside(t)'}) <= 1
       /\ \A t \in Threads : Inside(t)' => lock' = t
       /\ \A s \in Threads :
            pc[s] = "sleep" =>
                /\ \A u \in Threads \ {s} : ~Inside(u)'
                /\ admitLog' = admitLog
                /\ timestamps' # timestamps => pc'[s] = "record"]_vars

\* C17 witness: one caller sleeps inside acquire() past its wake-up time
\* while another has arrived and waits for the lock.
C17_Witness ==
    \E s \in Threads :
        /\ pc[s] = "sleep"
        /\ clock >= acq[s].wake
        /\ \E u \in Threads : pc[u] = "lock"

C23_SleepBounded ==
    \A t \in Threads :
        /\ (pc[t] = "check" /\ timestamps # <<>>) =>
               /\ acq[t].now - Second <= Head(timestamps)
               /\ Head(timestamps) <= acq[t].now
        /\ pc[t] = "sleep" =>
               /\ timestamps # <<>>
               /\ acq[t].oldest = Head(timestamps)
               /\ SleepTime(acq[t].oldest, acq[t].now) > 0
               /\ SleepTime(acq[t].oldest, acq[t].now) <= Second
               /\ acq[t].wake >= acq[t].now + SleepTime(acq[t].oldest, acq[t].now)

\* C23 witness: a caller sleeps inside acquire() for less than the whole
\* second, the oldest retained timestamp being older than its now.
C23_Witness ==
    \E t \in Threads :
        /\ pc[t] = "sleep"
        /\ acq[t].oldest < acq[t].now
        /\ SleepTime(acq[t].oldest, acq[t].now) < Second

\* C24: in every reachable state the recorded timestamps are in
\* non-decreasing order from front to back, so the front entry is the oldest.
C24_TimestampsAscending ==
    \A i, j \in 1..Len(timestamps) : i < j => timestamps[i] <= timestamps[j]

\* C24 witness: two callers were inside acquire() one after the other and
\* the deque holds two timestamps recorded at different clock readings.
C24_Witness ==
    /\ Len(timestamps) >= 2
    /\ timestamps[1] < timestamps[2]
    /\ \E t \in Threads : pc[t] = "lock"

\* ---------------------------------------------------- TradeExecutor claims

\* C14 (as stated): execute_dry_run never calls client.create_order, for
\* every safety configuration of the executor, every state of the global
\* configuration and every signal.
C14_DryRunNeverOrders ==
    lastExec.op = "execute_dry_run" =>
        /\ lastExec.create_orders = 0
        /\ ~lastExec.executed

\* C15: while dry_run of the global safety configuration is True, as it is
\* in a process where no safety setting has been changed, execute never
\* calls client.create_order and returns executed = False, for every signal,
\* size and price and every executor.
C15_DefaultsNeverOrder ==
    (lastExec.op = "execute" /\ safety_configs["global"].dry_run) =>
        /\ lastExec.create_orders = 0
        /\ ~lastExec.executed
        /\ lastExec.order_id = "None"

\* C15 witness: with every safety setting at its default, an execute() call
\* with a BUY signal of sufficient confidence and an order within the limit
\* got as far as confirm_trade.
C15_Witness ==
    /\ \A ref \in ConfigRefs : safety_configs[ref] = DefaultSafetyConfig
    /\ lastExec.op = "execute"
    /\ lastExec.signal = "buy"
    /\ lastExec.checks[Len(lastExec.checks)] = "confirm"
    /\ lastExec.confirmed = "False"

\* C19 (as stated): while the cumulative P&L recorded on the safety
\* configuration the executor was constructed with is below
\* -max_daily_loss_cents, every execute() call returns executed = False
\* without calling client.create_order.
C19_DailyLossBreaker ==
    (/\ lastExec.op = "execute"
     /\ safety_configs[executor_safety].daily_pnl_cents
            < -safety_configs[executor_safety].max_daily_loss_cents) =>
        /\ lastExec.create_orders = 0
        /\ ~lastExec.executed

\* The five checks of execute(), in order, and whether a call passed one:
\* the daily-loss check is is_safe_to_trade(), on the global configuration;
\* the order-value check is on the executor's configuration.
CheckOrder == <<"signal", "confidence", "daily_loss", "order_value", "confirm">>
Passed(e, name) ==
    CASE name = "signal" -> e.signal # "hold"
      [] name = "confidence" -> e.confidence >= MinConfidencePct
      [] name = "daily_loss" ->
            safety_configs["global"].daily_pnl_cents
                >= -safety_configs["global"].max_daily_loss_cents
      [] name = "order_value" ->
            e.contracts * (IF e.price_cents \in {<<>>, <<0>>}
                           THEN DefaultPriceCents ELSE e.price_cents[1])
                <= safety_configs[executor_safety].max_order_value_cents
      [] name = "confirm" -> e.confirmed = "True"

\* C20: execute applies the checks in order and stops at the first that
\* fails.  The checks evaluated are a prefix of (signal not HOLD,
\* confidence >= 0.55, daily loss, contracts * (price_cents or 50) <=
\* max_order_value_cents, confirm_trade); every check but the last evaluated
\* passed; a failed check is the last one evaluated and gives
\* executed = False with no client call; and client.create_order is called
\* only if all five passed.
C20_ChecksInOrder ==
    lastExec.op = "execute" =>
        LET e == lastExec
            n == Len(e.checks)
        IN  /\ n >= 1
            /\ e.checks = SubSeq(CheckOrder, 1, n)
            /\ \A i \in 1..(n - 1) : Passed(e, e.checks[i])
            /\ e.failed # "none" =>
                  /\ e.failed = e.checks[n]
                  /\ ~Passed(e, e.failed)
                  /\ e.create_orders = 0
                  /\ ~e.executed
            /\ e.failed = "none" =>
                  /\ n = Len(CheckOrder)
                  /\ Passed(e, e.checks[n])
                  /\ e.create_orders = 1
            /\ e.create_orders > 0 =>
                  \A i \in 1..Len(CheckOrder) : Passed(e, CheckOrder[i])
            /\ (e.confirmed = "not called") <=> (n < Len(CheckOrder))

\* C20 witness: an order placed by an executor on a custom configuration
\* with a raised order limit, for 21 contracts at price_cents = 0, confirmed
\* at the prompt.
C20_Witness ==
    /\ lastExec.op = "execute"
    /\ lastExec.create_orders = 1
    /\ lastExec.executed
    /\ lastExec.contracts = 21
    /\ lastExec.price_cents = <<0>>
    /\ executor_safety = "custom"
    /\ safety_configs["global"].require_confirmation

\* The string `inner` surrounded by whitespace only: str.strip() of `str`
\* is `inner`, for an `inner` that neither starts nor ends with whitespace.
StripsTo(str, inner) ==
    \E i \in 1..(Len(str) + 1) :
        /\ i + Len(inner) - 1 <= Len(str)
        /\ SubSeq(str, i, i + Len(inner) - 1) = inner
        /\ \A k \in 1..(i - 1) : str[k] \in {" ", "\t", "\n"}
        /\ \A k \in (i + Len(inner))..Len(str) : str[k] \in {" ", "\t", "\n"}

\* C21: confirm_trade returns False whenever dry_run is True; with dry_run
\* False and require_confirmation False it returns True without prompting;
\* with dry_run False and require_confirmation True it prompts and returns
\* True exactly when the input, stripped of surrounding whitespace, is
\* "CONFIRM".  The settings read are the global configuration's.
C21_ConfirmTradeTable ==
    lastExec.op = "confirm_trade" =>
        LET config == safety_configs["global"]
        IN  /\ config.dry_run =>
                  lastExec.confirmed = "False" /\ ~lastExec.prompted
            /\ (~config.dry_run /\ ~config.require_confirmation) =>
                  lastExec.confirmed = "True" /\ ~lastExec.prompted
            /\ (~config.dry_run /\ config.require_confirmation) =>
                  /\ lastExec.prompted
                  /\ (lastExec.confirmed = "True") <=>
                        StripsTo(lastExec.response, <<"C", "O", "N", "F", "I", "R", "M">>)

\* C21 witness: prompted, the user typed CONFIRM between spaces and the
\* call returned True.
C21_Witness ==
    /\ lastExec.op = "confirm_trade"
    /\ lastExec.prompted
    /\ lastExec.response # <<"C", "O", "N", "F", "I", "R", "M">>
    /\ lastExec.confirmed = "True"

\* C22 (as stated): execute_dry_run leaves dry_run as it found it.  For
\* every execute_dry_run call that has returned, sequential or overlapping
\* another call on the same configuration, dry_run on return equals dry_run
\* when the call was made.
C22_DryRunRestored ==
    \A t \in ExecutorThreads :
        (dryrun[t].op = "execute_dry_run" /\ dryrun[t].pc = "done") =>
            dryrun[t].exit_dry_run = dryrun[t].entry_dry_run

\* C28 (as stated): every ExecutionResult has executed = True if and only if
\* order_id is not None, and executed = True only when client.create_order
\* returned without raising; an exception raised by client.create_order
\* gives a result with executed = False and order_id = None.
C28_ExecutedIffOrderId ==
    lastExec.op \in {"execute", "execute_dry_run"} =>
        /\ lastExec.executed <=> lastExec.order_id # "None"
        /\ lastExec.executed =>
               /\ lastExec.create_orders = 1
               /\ lastExec.create_order \notin {"not called", "raise"}
        /\ lastExec.create_order = "raise" =>
               /\ ~lastExec.executed
               /\ lastExec.order_id = "None"

\* ------------------------------------------- RateLimiter.current_rate claims

\* C29: current_rate is read under the lock of acquire().  A step in which
\* a current_rate read completes is taken while no caller is inside
\* acquire()'s locked sequence, suspended in its sleep or not; the read
\* returns the number of recorded timestamps newer than the clock reading
\* less one second; and it leaves the timestamps as they were.
C29_CurrentRateUnderLock ==
    [][lastRate' # lastRate =>
          /\ lock = NoThread /\ lock' = NoThread
          /\ \A u \in Threads : pc[u] # "sleep" /\ ~Inside(u)
          /\ lastRate'.reads = lastRate.reads + 1
          /\ pc[lastRate'.reader] = "rate" /\ pc'[lastRate'.reader] = "returned"
          /\ lastRate'.now = clock
          /\ lastRate'.value =
                 Cardinality({i \in 1..Len(timestamps) : timestamps[i] + Second > clock})
          /\ timestamps' = timestamps
          /\ admitLog' = admitLog]_vars

\* C29 witness: a reader waits for the lock while another caller is
\* suspended in acquire()'s sleep, after an earlier read returned.
C29_Witness ==
    /\ \E s \in Threads : pc[s] = "sleep"
    /\ \E r \in Threads : pc[r] = "rate"
    /\ lastRate.reads >= 1

====
